---- MODULE Spec2Model ----
(***************************************************************************)
(* Model of weight_uncertainty/util/model.py: the construction of the      *)
(* Bayesian classifier graph (Model.__init__ and its helpers), the KL      *)
(* annealing helper ramp_and_clip, and the repeated invocation of the      *)
(* training operation by an external driver.                               *)
(*                                                                         *)
(* Conventions.                                                            *)
(*  - Real-valued tensors are exact rationals <<num, den>> in lowest terms *)
(*    with den > 0; floating-point rounding is not modelled.               *)
(*  - value_start / value_stop are counted in thousandths, so the call of  *)
(*    line 46, ramp_and_clip(1/1000., 1/10., 3000, 20000), is              *)
(*    ramp_and_clip(1, 100, 3000, 20000).                                  *)
(*  - Python's None is the integer None (-1); supplied steps are naturals. *)
(*  - An optional value is the empty sequence or a one-element sequence.   *)
(*  - A tensor of a collection is the sequence of its current values.      *)
(*  - -log2 is injective, so the total-bits tensor is represented by the   *)
(*    argument of the logarithm.                                           *)
(***************************************************************************)
EXTENDS Integers, Sequences, FiniteSets, TLC

\* ---- bounds of the model ------------------------------------------------
MaxTrain == 3          \* training invocations explored by Spec
AnnealHorizon == 20002 \* training invocations explored by SpecAnneal
MaxStepArg == 3        \* largest step_start / step_stop passed in SpecRamp
MaxCounter == 4        \* largest step counter / supplied step in SpecRamp
MaxTensors == 3        \* most tensors in all_sigma in SpecBits
MaxTensorLen == 2      \* most values in one scale tensor in SpecBits

\* ---- values of the program ----------------------------------------------
None == -1
NumLayers == 2         \* conf.num_layers
ConvRank == 4          \* rank of the input a convolution accepts
ValueSet == {1, 4}     \* value_start / value_stop drawn in SpecRamp
ScaleValues == {1, 2, 4}
NumClassesSet == {0, 2}
SizeSamples == {<< >>, <<8>>, <<8, 8, 1>>}
SigmaPriors == {0, 1}
OptimizerNames == {"adam", "bogus"}
ClipNorms == {0, 7}
GradLists == {<<0, 0>>, <<3, 4>>, <<6, 8>>}
SupportedOptimizers == {"sgd", "momentum", "adam"}

VARIABLES
    num_classes,    \* argument of Model.__init__
    size_sample,    \* argument of Model.__init__
    conf,           \* the configuration module
    pc,             \* position in the construction / helper call
    error,          \* the exception that ended the call, or "none"
    tensors,        \* named tensors created so far, in order
    prior,          \* self.prior: << >> or <<sigma_prior>>
    is_time_series, \* self.is_time_series
    cnn_inputs,     \* rank of the tensor fed to the first convolution
    filter_shape,   \* conf.get_filter_shape(...) as used by the encoder
    layers,         \* self.layers
    all_sigma,      \* collection 'all_sigma'
    random_mean,    \* collection 'random_mean'
    restore_vars,   \* collection 'restore_vars'
    summaries,      \* tf.summary.* recorded so far, in order
    global_step,    \* the process-wide step counter, None when absent
    kl_loss,        \* self.kl_loss: << >> or <<sequence of summed layers>>
    pi,             \* the tensor returned by ramp_and_clip: << >> or <<rec>>
    ramp_call,      \* arguments of the last ramp_and_clip call
    grads,          \* wiring of the locals grads / grads_norm
    train_op,       \* self.train_op exists
    total_bits,     \* self.total_bits: << >> or <<rational>>
    printed,        \* console output
    steps_run,      \* training invocations so far
    pi_val,         \* last evaluation of pi: << >> or <<[at, val]>>
    raw_grads,      \* tf.gradients values of the last invocation
    grads_fed,      \* gradient values handed to the optimizer
    norm_recorded   \* value of the 'grads_norm' scalar

vars == <<num_classes, size_sample, conf, pc, error, tensors, prior,
          is_time_series, cnn_inputs, filter_shape, layers, all_sigma,
          random_mean, restore_vars, summaries, global_step, kl_loss, pi,
          ramp_call, grads, train_op, total_bits, printed, steps_run,
          pi_val, raw_grads, grads_fed, norm_recorded>>

\* ---- exact arithmetic ---------------------------------------------------
Abs(x) == IF x < 0 THEN -x ELSE x

Max(a, b) == IF a >= b THEN a ELSE b

RECURSIVE GCD(_, _)
GCD(a, b) == IF b = 0 THEN a ELSE GCD(b, a % b)

Rat(n, d) ==
    LET s == IF d < 0 THEN -1 ELSE 1
        g == GCD(Abs(n), Abs(d))
    IN  <<(s * n) \div g, (s * d) \div g>>

RatAdd(a, b) == Rat(a[1] * b[2] + b[1] * a[2], a[2] * b[2])

RatMul(a, b) == Rat(a[1] * b[1], a[2] * b[2])

\* a <= b, a < b: both sides brought to the least common denominator
RatLeq(a, b) ==
    LET g == GCD(a[2], b[2])
    IN  a[1] * (b[2] \div g) <= b[1] * (a[2] \div g)

RatLt(a, b) ==
    LET g == GCD(a[2], b[2])
    IN  a[1] * (b[2] \div g) < b[1] * (a[2] \div g)

RatMin(a, b) == IF RatLeq(a, b) THEN a ELSE b

RatMax(a, b) == IF RatLeq(a, b) THEN b ELSE a

RECURSIVE Sum(_)
Sum(s) == IF s = << >> THEN 0 ELSE Head(s) + Sum(Tail(s))

RECURSIVE SumSq(_)
SumSq(s) == IF s = << >> THEN 0 ELSE Head(s) * Head(s) + SumSq(Tail(s))

\* ---- ramp_and_clip ------------------------------------------------------
\* `not global_step`
Falsy(gs) == gs = None \/ gs = 0

\* tf.train.get_or_create_global_step(): the counter, created at 0 if absent
get_or_create_global_step(counter) == IF counter = None THEN 0 ELSE counter

ZeroDivisionNever(d) == FALSE

\* 1. / (step_stop - step_start) raises ZeroDivisionError
ZeroDivision(d) == d = 0

clip_by_value_unbounded(x, lo, hi) == RatMax(x, lo)

\* tf.clip_by_value
clip_by_value(x, lo, hi) == RatMax(RatMin(x, hi), lo)

RampValueUnscaled(p, counter) ==
    LET t == IF p.use_counter THEN counter ELSE p.global_step
        x == Rat(t - p.step_start, 1)
    IN  RatAdd(Rat(p.value_start, 1),
               RatMul(Rat(p.value_stop - p.value_start, 1),
                      RatMax(RatMin(x, Rat(1, 1)), Rat(0, 1))))

\* value of the tensor p built by ramp_and_clip when the counter reads t
RampValue(p, counter) ==
    LET t == IF p.use_counter THEN counter ELSE p.global_step
        x == RatMul(Rat(1, p.step_stop - p.step_start),
                    Rat(t - p.step_start, 1))
    IN  RatAdd(Rat(p.value_start, 1),
               RatMul(Rat(p.value_stop - p.value_start, 1),
                      clip_by_value(x, Rat(0, 1), Rat(1, 1))))

\* the call: the counter, the summaries and the tensor it leaves behind
ramp_and_clip(value_start, value_stop, step_start, step_stop, gs, counter, sums) ==
    LET fallback == Falsy(gs)
        c == IF fallback THEN get_or_create_global_step(counter) ELSE counter
    IN  IF ZeroDivision(step_stop - step_start)
        THEN [error |-> "ZeroDivisionError", global_step |-> c,
              summaries |-> sums, pi |-> << >>]
        ELSE [error |-> "none", global_step |-> c,
              summaries |-> Append(sums, "pi"),
              pi |-> <<[value_start |-> value_start, value_stop |-> value_stop,
                        step_start |-> step_start, step_stop |-> step_stop,
                        use_counter |-> fallback, global_step |-> gs]>>]

\* ---- the layer library and the configuration module ---------------------
\* posterior scale tensors (kernel, bias) a layer registers in 'all_sigma'
LayerScales(name) == <<<<1, 1>>, <<1>>>>

\* posterior mean tensors (kernel, bias) a layer registers in 'random_mean'
LayerMeans(name) == <<<<0, 0>>, <<0>>>>

\* conf.get_filter_shape(is_time_series)
get_filter_shape(its) == IF its THEN "filter_1d" ELSE "filter_2d"

\* a convolution cell applied to an input of the given rank
ConvCallFails(rank) == rank # ConvRank

\* MixturePrior(sigma_prior) rejects a non-positive scale
MixturePriorFails(sigma_prior) == sigma_prior <= 0

\* make_train_op(optimizer_name, ...) rejects an unknown optimizer
MakeTrainOpFails(optimizer_name) == optimizer_name \notin SupportedOptimizers

\* ---- Model.add_CNN / Model.add_RNN / Model.softmax_layer --------------------
add_CNN(its) ==
    LET rank == IF its THEN (1 + Len(size_sample)) + 2 ELSE 1 + Len(size_sample)
        fs == get_filter_shape(its)
        names == <<"conv1", "conv2", "conv3">>
    IN  IF ConvCallFails(rank)
        THEN [error |-> "GraphConstructionError", layers |-> layers,
              all_sigma |-> all_sigma \o LayerScales("conv1"),
              random_mean |-> random_mean \o LayerMeans("conv1"),
              summaries |-> summaries, cnn_inputs |-> rank, filter_shape |-> fs]
        ELSE [error |-> "none", layers |-> layers \o names,
              all_sigma |-> all_sigma \o LayerScales("conv1")
                             \o LayerScales("conv2") \o LayerScales("conv3"),
              random_mean |-> random_mean \o LayerMeans("conv1")
                             \o LayerMeans("conv2") \o LayerMeans("conv3"),
              summaries |-> Append(summaries, "Layer1"),
              cnn_inputs |-> rank, filter_shape |-> fs]

RECURSIVE Cells(_)
Cells(n) == IF n = 0 THEN << >> ELSE Append(Cells(n - 1), "lstm")

RECURSIVE CellTensors(_, _)
CellTensors(n, ts) == IF n = 0 THEN << >> ELSE CellTensors(n - 1, ts) \o ts

add_RNN(its) ==
    [error |-> "none", layers |-> layers \o Cells(conf.num_layers),
     all_sigma |-> all_sigma \o CellTensors(conf.num_layers, LayerScales("lstm")),
     random_mean |-> random_mean \o CellTensors(conf.num_layers, LayerMeans("lstm")),
     summaries |-> summaries, cnn_inputs |-> 0, filter_shape |-> "none"]

use_rnn_for_time_series(its) == its

\* the hard-coded flag of line 18
use_rnn(its) == FALSE

RECURSIVE KLSum(_, _)
\* the loop of lines 36-38: the get_kl() terms added to self.kl_loss
KLSum(acc, ls) == IF ls = << >> THEN acc ELSE KLSum(Append(acc, Head(ls)), Tail(ls))

\* ---- gradient clipping --------------------------------------------------
\* tf.global_norm on a list whose sum of squares is a perfect square
global_norm(t_list) ==
    CHOOSE r \in 0..SumSq(t_list) : r * r <= SumSq(t_list) /\ (r + 1) * (r + 1) > SumSq(t_list)

clip_by_global_norm_post(t_list, clip_norm) ==
    LET n == global_norm(t_list)
        d == Max(n, clip_norm)
    IN  [list_clipped |-> [i \in DOMAIN t_list |-> Rat(t_list[i] * clip_norm, d)],
         global_norm |-> IF n > clip_norm THEN clip_norm ELSE n]

\* tf.clip_by_global_norm: (list_clipped, global_norm)
clip_by_global_norm(t_list, clip_norm) ==
    LET n == global_norm(t_list)
        d == Max(n, clip_norm)
    IN  [list_clipped |-> [i \in DOMAIN t_list |-> Rat(t_list[i] * clip_norm, d)],
         global_norm |-> n]

\* lines 67-70: which tensors the locals grads / grads_norm name
GradWiring(clip_norm) ==
    IF clip_norm > 0
    THEN [list |-> "clip_by_global_norm[0]", norm |-> "clip_by_global_norm[1]"]
    ELSE [list |-> "gradients", norm |-> "global_norm"]

\* values of the two tensors for gradient values g
RunGrads(w, g, clip_norm) ==
    IF w.list = "clip_by_global_norm[0]"
    THEN clip_by_global_norm(g, clip_norm).list_clipped
    ELSE [i \in DOMAIN g |-> Rat(g[i], 1)]

RunGradsNorm(w, g, clip_norm) ==
    IF w.norm = "clip_by_global_norm[1]"
    THEN clip_by_global_norm(g, clip_norm).global_norm
    ELSE global_norm(g)

\* ---- total bits ---------------------------------------------------------
\* tf.reduce_mean(var)
reduce_mean(var) == Rat(Sum(var), Len(var))

RECURSIVE SumOfMeans(_, _)
\* the loop of lines 81-84
SumOfMeans(acc, coll) ==
    IF coll = << >> THEN acc
    ELSE SumOfMeans(RatAdd(acc, reduce_mean(Head(coll))), Tail(coll))

\* line 86: the argument of -log2
TotalBitsArg(coll) == RatMul(SumOfMeans(Rat(0, 1), coll), Rat(1, Len(coll)))

add_to_collections_short(coll) ==
    coll \o <<"input", "target", "predictions", "classification_loss">>

\* Model.add_to_collections
add_to_collections(coll) ==
    coll \o <<"input", "target", "predictions", "classification_loss", "accuracy">>

\* ---- states ---------------------------------------------------------------
\* the process before anything is built
GraphEmpty ==
    /\ error = "none"
    /\ tensors = << >>
    /\ prior = << >>
    /\ is_time_series = FALSE
    /\ cnn_inputs = 0
    /\ filter_shape = "none"
    /\ layers = << >>
    /\ random_mean = << >>
    /\ restore_vars = << >>
    /\ summaries = << >>
    /\ kl_loss = << >>
    /\ pi = << >>
    /\ ramp_call = << >>
    /\ grads = << >>
    /\ train_op = FALSE
    /\ total_bits = << >>
    /\ printed = << >>
    /\ steps_run = 0
    /\ pi_val = << >>
    /\ raw_grads = << >>
    /\ grads_fed = << >>
    /\ norm_recorded = << >>

Confs(steps) ==
    [sigma_prior : SigmaPriors, optimizer_name : OptimizerNames,
     clip_norm : ClipNorms, max_steps : {steps}, num_layers : {NumLayers}]

Init ==
    /\ num_classes \in NumClassesSet
    /\ size_sample \in SizeSamples
    /\ conf \in Confs(MaxTrain)
    /\ pc = "start"
    /\ global_step = None
    /\ all_sigma = << >>
    /\ GraphEmpty

\* ---- Model.__init__, step by step ---------------------------------------
\* lines 11-12
Placeholders ==
    /\ pc = "start"
    /\ tensors' = tensors \o <<"input", "target">>
    /\ pc' = "prior"
    /\ UNCHANGED <<num_classes, size_sample, conf, error, prior, is_time_series,
                   cnn_inputs, filter_shape, layers, all_sigma, random_mean,
                   restore_vars, summaries, global_step, kl_loss, pi, ramp_call,
                   grads, train_op, total_bits, printed, steps_run, pi_val,
                   raw_grads, grads_fed, norm_recorded>>

\* line 15
Prior ==
    /\ pc = "prior"
    /\ IF MixturePriorFails(conf.sigma_prior)
       THEN /\ error' = "InvalidConfiguration"
            /\ pc' = "failed"
            /\ prior' = prior
       ELSE /\ error' = error
            /\ pc' = "encoder"
            /\ prior' = <<conf.sigma_prior>>
    /\ UNCHANGED <<num_classes, size_sample, conf, tensors, is_time_series,
                   cnn_inputs, filter_shape, layers, all_sigma, random_mean,
                   restore_vars, summaries, global_step, kl_loss, pi, ramp_call,
                   grads, train_op, total_bits, printed, steps_run, pi_val,
                   raw_grads, grads_fed, norm_recorded>>

\* lines 17-24
Encoder ==
    /\ pc = "encoder"
    /\ LET its == Len(size_sample) = 1
           r == IF use_rnn(its) THEN add_RNN(its) ELSE add_CNN(its)
       IN  /\ is_time_series' = its
           /\ error' = r.error
           /\ pc' = IF r.error = "none" THEN "softmax" ELSE "failed"
           /\ layers' = r.layers
           /\ all_sigma' = r.all_sigma
           /\ random_mean' = r.random_mean
           /\ summaries' = r.summaries
           /\ cnn_inputs' = r.cnn_inputs
           /\ filter_shape' = r.filter_shape
    /\ UNCHANGED <<num_classes, size_sample, conf, tensors, prior, restore_vars,
                   global_step, kl_loss, pi, ramp_call, grads, train_op,
                   total_bits, printed, steps_run, pi_val, raw_grads, grads_fed,
                   norm_recorded>>

\* line 26 and Model.softmax_layer
Softmax ==
    /\ pc = "softmax"
    /\ all_sigma' = all_sigma \o LayerScales("softmax")
    /\ random_mean' = random_mean \o LayerMeans("softmax")
    /\ layers' = Append(layers, "softmax")
    /\ pc' = "losses"
    /\ UNCHANGED <<num_classes, size_sample, conf, error, tensors, prior,
                   is_time_series, cnn_inputs, filter_shape, restore_vars,
                   summaries, global_step, kl_loss, pi, ramp_call, grads,
                   train_op, total_bits, printed, steps_run, pi_val, raw_grads,
                   grads_fed, norm_recorded>>

\* lines 28-38
Losses ==
    /\ pc = "losses"
    /\ tensors' = tensors \o <<"predictions", "classification_loss">>
    /\ kl_loss' = <<KLSum(<< >>, layers)>>
    /\ pc' = "anneal"
    /\ UNCHANGED <<num_classes, size_sample, conf, error, prior, is_time_series,
                   cnn_inputs, filter_shape, layers, all_sigma, random_mean,
                   restore_vars, summaries, global_step, pi, ramp_call, grads,
                   train_op, total_bits, printed, steps_run, pi_val, raw_grads,
                   grads_fed, norm_recorded>>

\* lines 44-47
Anneal ==
    /\ pc = "anneal"
    /\ LET r == ramp_and_clip(1, 100, 3000, 20000, None, global_step, summaries)
       IN  /\ error' = r.error
           /\ pc' = IF r.error = "none" THEN "gradients" ELSE "failed"
           /\ global_step' = r.global_step
           /\ summaries' = r.summaries
           /\ pi' = r.pi
           /\ ramp_call' = <<[value_start |-> 1, value_stop |-> 100,
                              step_start |-> 3000, step_stop |-> 20000,
                              global_step |-> None]>>
    /\ UNCHANGED <<num_classes, size_sample, conf, tensors, prior, is_time_series,
                   cnn_inputs, filter_shape, layers, all_sigma, random_mean,
                   restore_vars, kl_loss, grads, train_op, total_bits, printed,
                   steps_run, pi_val, raw_grads, grads_fed, norm_recorded>>

\* lines 50-70
Gradients ==
    /\ pc = "gradients"
    /\ printed' = Append(printed, "# params")
    /\ grads' = <<GradWiring(conf.clip_norm)>>
    /\ pc' = "train_op"
    /\ UNCHANGED <<num_classes, size_sample, conf, error, tensors, prior,
                   is_time_series, cnn_inputs, filter_shape, layers, all_sigma,
                   random_mean, restore_vars, summaries, global_step, kl_loss, pi,
                   ramp_call, train_op, total_bits, steps_run, pi_val, raw_grads,
                   grads_fed, norm_recorded>>

\* line 72
MakeTrainOp ==
    /\ pc = "train_op"
    /\ IF MakeTrainOpFails(conf.optimizer_name)
       THEN /\ error' = "InvalidConfiguration"
            /\ pc' = "failed"
            /\ train_op' = train_op
       ELSE /\ error' = error
            /\ pc' = "summaries"
            /\ train_op' = TRUE
    /\ UNCHANGED <<num_classes, size_sample, conf, tensors, prior, is_time_series,
                   cnn_inputs, filter_shape, layers, all_sigma, random_mean,
                   restore_vars, summaries, global_step, kl_loss, pi, ramp_call,
                   grads, total_bits, printed, steps_run, pi_val, raw_grads,
                   grads_fed, norm_recorded>>

\* lines 75-78 and Model.add_tensorboard_summaries
Summaries ==
    /\ pc = "summaries"
    /\ tensors' = Append(tensors, "accuracy")
    /\ summaries' = summaries \o <<"loss", "kl_loss", "grads_norm", "accuracy",
                                   "Sigmas", "snr">>
    /\ pc' = "bits"
    /\ UNCHANGED <<num_classes, size_sample, conf, error, prior, is_time_series,
                   cnn_inputs, filter_shape, layers, all_sigma, random_mean,
                   restore_vars, global_step, kl_loss, pi, ramp_call, grads,
                   train_op, total_bits, printed, steps_run, pi_val, raw_grads,
                   grads_fed, norm_recorded>>

\* lines 80-87
TotalBits ==
    /\ pc = "bits"
    /\ total_bits' = <<TotalBitsArg(all_sigma)>>
    /\ summaries' = Append(summaries, "Total bits")
    /\ pc' = "bookkeeping"
    /\ UNCHANGED <<num_classes, size_sample, conf, error, tensors, prior,
                   is_time_series, cnn_inputs, filter_shape, layers, all_sigma,
                   random_mean, restore_vars, global_step, kl_loss, pi, ramp_call,
                   grads, train_op, printed, steps_run, pi_val, raw_grads,
                   grads_fed, norm_recorded>>

\* lines 89-95
Bookkeeping ==
    /\ pc = "bookkeeping"
    /\ restore_vars' = add_to_collections(restore_vars)
    /\ printed' = Append(printed, "Finished model")
    /\ pc' = "finished"
    /\ UNCHANGED <<num_classes, size_sample, conf, error, tensors, prior,
                   is_time_series, cnn_inputs, filter_shape, layers, all_sigma,
                   random_mean, summaries, global_step, kl_loss, pi, ramp_call,
                   grads, train_op, total_bits, steps_run, pi_val, raw_grads,
                   grads_fed, norm_recorded>>

\* ---- the driver invokes the training operation --------------------------
\* the step the tensor p reads
StepOf(p, counter) == IF p.use_counter THEN counter ELSE p.global_step

\* the counter after one run of the operation built by make_train_op
StepAfterTrain(counter) == counter + 1

Train ==
    /\ pc = "finished"
    /\ steps_run < conf.max_steps
    /\ \E g \in GradLists :
          /\ raw_grads' = g
          /\ grads_fed' = RunGrads(grads[1], g, conf.clip_norm)
          /\ norm_recorded' = <<RunGradsNorm(grads[1], g, conf.clip_norm)>>
    /\ pi_val' = <<[at |-> StepOf(pi[1], global_step),
                    val |-> RampValue(pi[1], global_step)]>>
    /\ global_step' = StepAfterTrain(global_step)
    /\ steps_run' = steps_run + 1
    /\ UNCHANGED <<num_classes, size_sample, conf, pc, error, tensors, prior,
                   is_time_series, cnn_inputs, filter_shape, layers, all_sigma,
                   random_mean, restore_vars, summaries, kl_loss, pi, ramp_call,
                   grads, train_op, total_bits, printed>>

Next ==
    \/ Placeholders
    \/ Prior
    \/ Encoder
    \/ Softmax
    \/ Losses
    \/ Anneal
    \/ Gradients
    \/ MakeTrainOp
    \/ Summaries
    \/ TotalBits
    \/ Bookkeeping
    \/ Train

Spec == Init /\ [][Next]_vars

\* ---- the annealing schedule over a long run -----------------------------
InitAnneal ==
    /\ num_classes = 2
    /\ size_sample = <<8>>
    /\ conf \in Confs(AnnealHorizon)
    /\ pc = "start"
    /\ global_step = None
    /\ all_sigma = << >>
    /\ GraphEmpty

SpecAnneal == InitAnneal /\ [][Next]_vars

\* ---- ramp_and_clip called on its own ------------------------------------
DefaultConf ==
    [sigma_prior |-> 1, optimizer_name |-> "adam", clip_norm |-> 0,
     max_steps |-> MaxTrain, num_layers |-> NumLayers]

StepsOrNone == {None} \cup (0..MaxCounter)

InitRamp ==
    /\ num_classes = 2
    /\ size_sample = <<8>>
    /\ conf = DefaultConf
    /\ pc = "helper"
    /\ global_step \in StepsOrNone
    /\ all_sigma = << >>
    /\ GraphEmpty

RampCall ==
    /\ pc = "helper"
    /\ \E vs \in ValueSet, ve \in ValueSet, s0 \in 0..MaxStepArg,
          s1 \in 0..MaxStepArg, gs \in StepsOrNone :
          LET r == ramp_and_clip(vs, ve, s0, s1, gs, global_step, summaries)
          IN  /\ error' = r.error
              /\ pc' = IF r.error = "none" THEN "called" ELSE "failed"
              /\ global_step' = r.global_step
              /\ summaries' = r.summaries
              /\ pi' = r.pi
              /\ ramp_call' = <<[value_start |-> vs, value_stop |-> ve,
                                 step_start |-> s0, step_stop |-> s1,
                                 global_step |-> gs]>>
    /\ UNCHANGED <<num_classes, size_sample, conf, tensors, prior, is_time_series,
                   cnn_inputs, filter_shape, layers, all_sigma, random_mean,
                   restore_vars, kl_loss, grads, train_op, total_bits, printed,
                   steps_run, pi_val, raw_grads, grads_fed, norm_recorded>>

\* a session evaluates the tensor
EvalPi ==
    /\ pc = "called"
    /\ pi_val' = <<[at |-> StepOf(pi[1], global_step),
                    val |-> RampValue(pi[1], global_step)]>>
    /\ UNCHANGED <<num_classes, size_sample, conf, pc, error, tensors, prior,
                   is_time_series, cnn_inputs, filter_shape, layers, all_sigma,
                   random_mean, restore_vars, summaries, global_step, kl_loss, pi,
                   ramp_call, grads, train_op, total_bits, printed, steps_run,
                   raw_grads, grads_fed, norm_recorded>>

\* a training operation of the process advances an existing counter
AdvanceStep ==
    /\ pc \in {"helper", "called"}
    /\ global_step # None
    /\ global_step < MaxCounter
    /\ global_step' = StepAfterTrain(global_step)
    /\ UNCHANGED <<num_classes, size_sample, conf, pc, error, tensors, prior,
                   is_time_series, cnn_inputs, filter_shape, layers, all_sigma,
                   random_mean, restore_vars, summaries, kl_loss, pi, ramp_call,
                   grads, train_op, total_bits, printed, steps_run, pi_val,
                   raw_grads, grads_fed, norm_recorded>>

NextRamp ==
    \/ RampCall
    \/ EvalPi
    \/ AdvanceStep

SpecRamp == InitRamp /\ [][NextRamp]_vars

\* ---- the total-bits computation on its own ------------------------------
SeqsUpTo(S, n) == UNION {[1..k -> S] : k \in 1..n}

SigmaCollections == SeqsUpTo(SeqsUpTo(ScaleValues, MaxTensorLen), MaxTensors)

InitBits ==
    /\ num_classes = 2
    /\ size_sample = <<8>>
    /\ conf = DefaultConf
    /\ pc = "bits"
    /\ global_step = None
    /\ all_sigma \in SigmaCollections
    /\ GraphEmpty

NextBits == TotalBits

SpecBits == InitBits /\ [][NextBits]_vars

\* ---- helpers of the properties ------------------------------------------
Range(q) == {q[i] : i \in DOMAIN q}

RECURSIVE RatSumSq(_)
RatSumSq(q) ==
    IF q = << >> THEN Rat(0, 1)
    ELSE RatAdd(RatMul(Head(q), Head(q)), RatSumSq(Tail(q)))

RECURSIVE SumAll(_)
SumAll(coll) == IF coll = << >> THEN 0 ELSE Sum(Head(coll)) + SumAll(Tail(coll))

RECURSIVE CountAll(_)
CountAll(coll) == IF coll = << >> THEN 0 ELSE Len(Head(coll)) + CountAll(Tail(coll))

\* ---- C1 -----------------------------------------------------------------
C1_Piecewise ==
    (pi # << >> /\ pi_val # << >> /\ pi[1].step_start < pi[1].step_stop) =>
        LET p == pi[1]
            t == pi_val[1].at
            v == pi_val[1].val
        IN  /\ t <= p.step_start => v = <<p.value_start, 1>>
            /\ t >= p.step_stop => v = <<p.value_stop, 1>>
            /\ (p.step_start < t /\ t < p.step_stop) =>
                   v = Rat(p.value_start * (p.step_stop - p.step_start)
                             + (p.value_stop - p.value_start) * (t - p.step_start),
                           p.step_stop - p.step_start)

C1_Increasing ==
    (/\ pi # << >> /\ pi' = pi /\ pi_val # << >> /\ pi_val' # << >>
     /\ pi[1].value_stop > pi[1].value_start
     /\ pi[1].step_start < pi_val[1].at
     /\ pi_val[1].at < pi_val'[1].at
     /\ pi_val'[1].at < pi[1].step_stop)
        => RatLt(pi_val[1].val, pi_val'[1].val)

\* C1: with step_start < step_stop, ramp_and_clip evaluates to value_start for
\* t <= step_start, to value_stop for t >= step_stop, and in between to
\* value_start + (value_stop - value_start) * (t - step_start) / (step_stop - step_start),
\* strictly increasing in t when value_stop > value_start.
C1_Ramp == [](C1_Piecewise) /\ [][C1_Increasing]_vars

C1_Witness ==
    /\ pi # << >> /\ pi_val # << >>
    /\ pi[1].value_stop > pi[1].value_start
    /\ pi[1].step_start + 1 < pi_val[1].at
    /\ pi_val[1].at < pi[1].step_stop
    /\ RatLt(<<pi[1].value_start, 1>>, pi_val[1].val)
    /\ RatLt(pi_val[1].val, <<pi[1].value_stop, 1>>)

\* ---- C2 -----------------------------------------------------------------
C2_Schedule ==
    pi_val # << >> =>
        LET t == pi_val[1].at
            v == pi_val[1].val
        IN  /\ t = steps_run - 1
            /\ global_step = steps_run
            /\ t <= 3000 => v = <<1, 1>>
            /\ (3000 < t /\ t < 20000) => (RatLt(<<1, 1>>, v) /\ RatLt(v, <<100, 1>>))
            /\ t >= 20000 => v = <<100, 1>>

C2_Steps ==
    /\ steps_run' # steps_run => (steps_run' = steps_run + 1 /\ global_step' = global_step + 1)
    /\ (pc = "anneal" /\ pc' # pc) => global_step' = IF global_step = None THEN 0 ELSE global_step
    /\ (pi_val # << >> /\ pi_val' # << >>) => RatLeq(pi_val[1].val, pi_val'[1].val)

\* C2: the step counter grows by exactly one per training invocation and the
\* annealing helper leaves its value alone, so the KL weight never decreases:
\* 0.001 up to step 3000, between 0.001 and 0.1 while ramping, 0.1 from step
\* 20000 on.
C2_Annealing == [](C2_Schedule) /\ [][C2_Steps]_vars

C2_Witness ==
    /\ pi_val # << >>
    /\ pi_val[1].at > 20000
    /\ pi_val[1].val = <<100, 1>>

\* ---- C3 -----------------------------------------------------------------
DegenerateCall == ramp_call # << >> /\ ramp_call[1].step_stop = ramp_call[1].step_start

C4_Rejected ==
    (num_classes <= 0 \/ size_sample = << >>) =>
        (/\ pc # "finished"
         /\ pc = "failed" => error = "InvalidConfiguration")

\* ---- C5 -----------------------------------------------------------------
\* C5: when construction fails with a configuration error, nothing has been
\* created: no tensor, layer, step counter, summary or collection entry.
C5_NothingCreated ==
    (pc = "failed" /\ error = "InvalidConfiguration") =>
        (/\ tensors = << >> /\ layers = << >> /\ global_step = None
         /\ summaries = << >> /\ all_sigma = << >> /\ random_mean = << >>
         /\ restore_vars = << >>)

\* ---- C6 -----------------------------------------------------------------
\* C6: restore_vars is empty until construction completes and from then on is
\* exactly input, target, predictions, classification loss, accuracy, in that
\* order, registered together with the 'Finished model' message.
C6_RestoreVars ==
    /\ pc = "finished" =>
          (/\ restore_vars = <<"input", "target", "predictions",
                               "classification_loss", "accuracy">>
           /\ Range(restore_vars) \subseteq Range(tensors)
           /\ printed[Len(printed)] = "Finished model")
    /\ pc # "finished" =>
          (restore_vars = << >> /\ "Finished model" \notin Range(printed))

C6_Witness == pc = "finished" /\ steps_run > 0 /\ Len(restore_vars) = 5

\* ---- C7 -----------------------------------------------------------------
\* C7: the quantity under -log2 in 'Total bits' is the mean of all individual
\* scale values of all tensors of all_sigma taken together.
C7_MeanOfAll ==
    total_bits # << >> => total_bits[1] = Rat(SumAll(all_sigma), CountAll(all_sigma))

\* ---- C8 -----------------------------------------------------------------
RawNormSq == SumSq(raw_grads)

\* C8 as stated: with clip_norm > 0 the handed list has norm at most clip_norm
\* and the recorded scalar is the post-clip norm; with clip_norm <= 0 the list
\* is unchanged and the raw norm is recorded.
C8_Original ==
    steps_run > 0 =>
        IF conf.clip_norm > 0
        THEN /\ RatLeq(RatSumSq(grads_fed), <<conf.clip_norm * conf.clip_norm, 1>>)
             /\ <<norm_recorded[1] * norm_recorded[1], 1>> = RatSumSq(grads_fed)
             /\ norm_recorded[1] <= conf.clip_norm
        ELSE /\ grads_fed = [i \in DOMAIN raw_grads |-> <<raw_grads[i], 1>>]
             /\ norm_recorded[1] * norm_recorded[1] = RawNormSq

\* C8 amended: with clip_norm > 0 the handed list is the raw list rescaled to a
\* norm of at most clip_norm, and the recorded scalar is the norm of the raw
\* list before clipping; with clip_norm <= 0 the list is unchanged and the raw
\* norm is recorded.
C8_PreClipNorm ==
    steps_run > 0 =>
        /\ norm_recorded[1] >= 0
        /\ norm_recorded[1] * norm_recorded[1] = RawNormSq
        /\ IF conf.clip_norm > 0
           THEN /\ RatLeq(RatSumSq(grads_fed), <<conf.clip_norm * conf.clip_norm, 1>>)
                /\ \A i \in DOMAIN raw_grads :
                      grads_fed[i] =
                          IF RawNormSq > conf.clip_norm * conf.clip_norm
                          THEN Rat(raw_grads[i] * conf.clip_norm, norm_recorded[1])
                          ELSE <<raw_grads[i], 1>>
           ELSE grads_fed = [i \in DOMAIN raw_grads |-> <<raw_grads[i], 1>>]

C8_Witness ==
    /\ steps_run > 0
    /\ conf.clip_norm > 0
    /\ RawNormSq > conf.clip_norm * conf.clip_norm
    /\ norm_recorded[1] > conf.clip_norm

\* ---- C9 -----------------------------------------------------------------
\* C9: for every size_sample, the layers summed into the KL loss are exactly
\* conv1, conv2, conv3 and the softmax head in forward order, no recurrent cell
\* is ever recorded, and is_time_series decides only the input reshape and the
\* filter shape.
C9_Layers ==
    /\ "lstm" \notin Range(layers)
    /\ kl_loss # << >> =>
          (/\ layers = <<"conv1", "conv2", "conv3", "softmax">>
           /\ kl_loss[1] = <<"conv1", "conv2", "conv3", "softmax">>
           /\ is_time_series = (Len(size_sample) = 1)
           /\ cnn_inputs = IF is_time_series THEN Len(size_sample) + 3
                           ELSE Len(size_sample) + 1
           /\ filter_shape = IF is_time_series THEN "filter_1d" ELSE "filter_2d")

C9_Witness == kl_loss # << >> /\ is_time_series /\ Len(layers) = 4

\* ---- C10 ----------------------------------------------------------------
\* C10: a call with a supplied global_step, 0 included, computes from the
\* supplied value and neither creates nor reads the process-wide counter.
C10_SuppliedStep ==
    [][(ramp_call = << >> /\ ramp_call' # << >> /\ ramp_call'[1].global_step # None) =>
          (/\ global_step' = global_step
           /\ pi' # << >> => ~pi'[1].use_counter)]_vars

====
